---- MODULE Spec2Model ----
(***************************************************************************)
(* StockTransfer (models/inventory/StockTransfer.ts): ledger posting of a  *)
(* shipment / purchase receipt and reconciliation of the linked invoice's  *)
(* per-row stockNotTransferred on submit and cancel.                       *)
(***************************************************************************)
EXTENDS Integers, Sequences, FiniteSets, TLC

VARIABLES
    invItems,     \* invoice.items: rows [item, quantity, stockNotTransferred]
    invTotal,     \* invoice.stockNotTransferred, the persisted aggregate
    docs,         \* the StockTransfer documents, by name
    posted,       \* transfers whose ledger posting is committed
    loaded,       \* did the latest _updateBackReference call load the invoice
    preSubmit,    \* invoice rows as they stood before the latest submit
    isSales,      \* schemaName = Shipment (else PurchaseReceipt)
    grandTotal,   \* grandTotal of the transfer that is posted, optional
    settings,     \* fyo.singles.InventorySettings
    accounts,     \* names of the Account documents that exist
    result,       \* outcome of the latest getPosting / validateAccounts call
    lastMap,      \* the map the latest _getTransferMap call returned
    proc          \* where each transfer's submit or cancel stands, step by step

vars == <<invItems, invTotal, docs, posted, loaded, preSubmit,
          isSales, grandTotal, settings, accounts, result, lastMap, proc>>

reconVars == <<invItems, invTotal, docs, posted, loaded, preSubmit>>
postingVars == <<isSales, grandTotal, settings, accounts, result>>
mapVars == <<lastMap>>
stepVars == <<proc>>

(***************************************************************************)
(* Bounds of the model                                                     *)
(***************************************************************************)
MaxQty == 2          \* largest quantity of an invoice row or transfer row
MaxAmount == 2       \* largest grandTotal of a transfer

Items == {"A", "B"}
RowCounts == {1, 2}  \* rows of an invoice, rows of a transfer

(***************************************************************************)
(* Optional values: <<>> is undefined, <<v>> is the value v                *)
(***************************************************************************)
Undefined == "<undefined>"
Empty == ""
None == <<>>
Some(v) == <<v>>
IsDefined(o) == o # <<>>
ValueOf(o) == o[1]

Max(a, b) == IF a >= b THEN a ELSE b
Min(a, b) == IF a <= b THEN a ELSE b

\* a ?? b on an optional number
OrElse(o, d) == IF IsDefined(o) THEN ValueOf(o) ELSE d

(***************************************************************************)
(* Documents                                                               *)
(***************************************************************************)
InvoiceName == "INV"
TransferNames == {"T1"}            \* the transfer created against the invoice
DuplicateNames == {"D1"}           \* names handed out by duplicate()
SecondNames == {"T2"}
DocNames == TransferNames \cup DuplicateNames \cup SecondNames

AbsentDoc == [status |-> "Absent", backReference |-> Undefined, items |-> <<>>]

\* Doc.isSubmitted / Doc.isCancelled
isSubmitted(doc) == doc.status = "Submitted"
isCancelled(doc) == doc.status = "Cancelled"

\* JavaScript truthiness of an optional string: undefined and '' are falsy
Falsy(s) == s = Undefined \/ s = Empty

EmptyMap == [i \in {} |-> 0]

\* a transfer on which no submit or cancel is under way
IdleProc ==
    [pc |-> "idle", cursor |-> 0, transferMap |-> EmptyMap, overlap |-> FALSE]

(***************************************************************************)
(* _getTransferMap: item -> summed quantity of the transfer's rows         *)
(***************************************************************************)
\* the reducer, assigning the row's quantity where it should add it
transferMapStep_overwrite(acc, row) ==
    IF Falsy(row.item) THEN acc
    ELSE IF ~IsDefined(row.quantity) \/ ValueOf(row.quantity) = 0 THEN acc
    ELSE LET base == IF row.item \in DOMAIN acc THEN acc
                     ELSE acc @@ (row.item :> 0)
         IN  [base EXCEPT ![row.item] = ValueOf(row.quantity)]

\* the reducer of _getTransferMap, one transfer row
transferMapStep(acc, row) ==
    IF Falsy(row.item) THEN acc
    ELSE IF ~IsDefined(row.quantity) \/ ValueOf(row.quantity) = 0 THEN acc
    ELSE LET base == IF row.item \in DOMAIN acc THEN acc
                     ELSE acc @@ (row.item :> 0)
         IN  [base EXCEPT ![row.item] = @ + ValueOf(row.quantity)]

RECURSIVE reduceRows(_, _)
reduceRows(acc, rows) ==
    IF rows = <<>> THEN acc
    ELSE reduceRows(transferMapStep(acc, Head(rows)), Tail(rows))

getTransferMap(doc) == reduceRows(EmptyMap, doc.items)

(***************************************************************************)
(* _updateBackReference                                                    *)
(***************************************************************************)
\* reconcileRow without the cap at the row's quantity on cancel
reconcileRow_uncapped(row, transferMap, cancelled) ==
    LET item == row.item
        quantity == row.quantity
        notTransferred == OrElse(row.stockNotTransferred, 0)
    IN  IF item \notin DOMAIN transferMap
        THEN [row |-> row, transferMap |-> transferMap]
        ELSE LET transferred == transferMap[item]
             IN  IF cancelled
                 THEN [row |-> [row EXCEPT !.stockNotTransferred =
                                    Some(notTransferred + transferred)],
                       transferMap |-> [transferMap EXCEPT ![item] =
                                    Max(transferred + notTransferred - quantity, 0)]]
                 ELSE [row |-> [row EXCEPT !.stockNotTransferred =
                                    Some(Max(notTransferred - transferred, 0))],
                       transferMap |-> [transferMap EXCEPT ![item] =
                                    Max(transferred - notTransferred, 0)]]

\* reconcileRow that leaves transferMap[item] as it was on submit
reconcileRow_noCarry(row, transferMap, cancelled) ==
    LET item == row.item
        quantity == row.quantity
        notTransferred == OrElse(row.stockNotTransferred, 0)
    IN  IF item \notin DOMAIN transferMap
        THEN [row |-> row, transferMap |-> transferMap]
        ELSE LET transferred == transferMap[item]
             IN  IF cancelled
                 THEN [row |-> [row EXCEPT !.stockNotTransferred =
                                    Some(Min(notTransferred + transferred, quantity))],
                       transferMap |-> [transferMap EXCEPT ![item] =
                                    Max(transferred + notTransferred - quantity, 0)]]
                 ELSE [row |-> [row EXCEPT !.stockNotTransferred =
                                    Some(Max(notTransferred - transferred, 0))],
                       transferMap |-> transferMap]

\* reconcileRow whose cancel branch carries the residual of the submit branch
reconcileRow_submitResidual(row, transferMap, cancelled) ==
    LET item == row.item
        quantity == row.quantity
        notTransferred == OrElse(row.stockNotTransferred, 0)
    IN  IF item \notin DOMAIN transferMap
        THEN [row |-> row, transferMap |-> transferMap]
        ELSE LET transferred == transferMap[item]
             IN  IF cancelled
                 THEN [row |-> [row EXCEPT !.stockNotTransferred =
                                    Some(Min(notTransferred + transferred, quantity))],
                       transferMap |-> [transferMap EXCEPT ![item] =
                                    Max(transferred - notTransferred, 0)]]
                 ELSE [row |-> [row EXCEPT !.stockNotTransferred =
                                    Some(Max(notTransferred - transferred, 0))],
                       transferMap |-> [transferMap EXCEPT ![item] =
                                    Max(transferred - notTransferred, 0)]]

\* reconcileRow that skips a row whose stockNotTransferred is undefined
reconcileRow_skipUndefined(row, transferMap, cancelled) ==
    LET item == row.item
        quantity == row.quantity
    IN  IF item \notin DOMAIN transferMap \/ ~IsDefined(row.stockNotTransferred)
        THEN [row |-> row, transferMap |-> transferMap]
        ELSE LET transferred == transferMap[item]
                 notTransferred == ValueOf(row.stockNotTransferred)
             IN  IF cancelled
                 THEN [row |-> [row EXCEPT !.stockNotTransferred =
                                    Some(Min(notTransferred + transferred, quantity))],
                       transferMap |-> [transferMap EXCEPT ![item] =
                                    Max(transferred + notTransferred - quantity, 0)]]
                 ELSE [row |-> [row EXCEPT !.stockNotTransferred =
                                    Some(Max(notTransferred - transferred, 0))],
                       transferMap |-> [transferMap EXCEPT ![item] =
                                    Max(transferred - notTransferred, 0)]]

\* reconcileRow whose submit branch subtracts the row from the transfer
reconcileRow_swappedOperands(row, transferMap, cancelled) ==
    LET item == row.item
        quantity == row.quantity
        notTransferred == OrElse(row.stockNotTransferred, 0)
    IN  IF item \notin DOMAIN transferMap
        THEN [row |-> row, transferMap |-> transferMap]
        ELSE LET transferred == transferMap[item]
             IN  IF cancelled
                 THEN [row |-> [row EXCEPT !.stockNotTransferred =
                                    Some(Min(notTransferred + transferred, quantity))],
                       transferMap |-> [transferMap EXCEPT ![item] =
                                    Max(transferred + notTransferred - quantity, 0)]]
                 ELSE [row |-> [row EXCEPT !.stockNotTransferred =
                                    Some(Min(Max(transferred - notTransferred, 0),
                                             quantity))],
                       transferMap |-> [transferMap EXCEPT ![item] =
                                    Max(transferred - notTransferred, 0)]]

\* the body of the loop over invoice.items, one invoice row
reconcileRow(row, transferMap, cancelled) ==
    LET item == row.item
        quantity == row.quantity
        notTransferred == OrElse(row.stockNotTransferred, 0)
    IN  IF item \notin DOMAIN transferMap
        THEN [row |-> row, transferMap |-> transferMap]
        ELSE LET transferred == transferMap[item]
             IN  IF cancelled
                 THEN [row |-> [row EXCEPT !.stockNotTransferred =
                                    Some(Min(notTransferred + transferred, quantity))],
                       transferMap |-> [transferMap EXCEPT ![item] =
                                    Max(transferred + notTransferred - quantity, 0)]]
                 ELSE [row |-> [row EXCEPT !.stockNotTransferred =
                                    Some(Max(notTransferred - transferred, 0))],
                       transferMap |-> [transferMap EXCEPT ![item] =
                                    Max(transferred - notTransferred, 0)]]

\* the loop over invoice.items in stored order, threading transferMap
RECURSIVE reconcileRows(_, _, _)
reconcileRows(rows, transferMap, cancelled) ==
    IF rows = <<>> THEN <<>>
    ELSE LET r == reconcileRow(Head(rows), transferMap, cancelled)
         IN  <<r.row>> \o reconcileRows(Tail(rows), r.transferMap, cancelled)

\* Invoice.getStockNotTransferred: the sum over the rows
RECURSIVE getStockNotTransferred(_)
getStockNotTransferred(rows) ==
    IF rows = <<>> THEN 0
    ELSE OrElse(Head(rows).stockNotTransferred, 0)
         + getStockNotTransferred(Tail(rows))

\* updateBackReference without the early return on a document that is
\* neither Submitted nor Cancelled
updateBackReference_noStatusGuard(doc) ==
    IF Falsy(doc.backReference)
    THEN [loaded |-> FALSE, items |-> invItems, total |-> invTotal]
    ELSE LET rows == reconcileRows(invItems, getTransferMap(doc), isCancelled(doc))
         IN  [loaded |-> TRUE, items |-> rows,
              total |-> getStockNotTransferred(rows)]

\* updateBackReference that computes the aggregate before the rows are updated
updateBackReference_staleTotal(doc) ==
    IF ~isCancelled(doc) /\ ~isSubmitted(doc)
    THEN [loaded |-> FALSE, items |-> invItems, total |-> invTotal]
    ELSE IF Falsy(doc.backReference)
    THEN [loaded |-> FALSE, items |-> invItems, total |-> invTotal]
    ELSE LET rows == reconcileRows(invItems, getTransferMap(doc), isCancelled(doc))
         IN  [loaded |-> TRUE, items |-> rows,
              total |-> getStockNotTransferred(invItems)]

\* _updateBackReference of doc against the invoice as it stands:
\* whether the invoice was loaded, and the invoice's rows and aggregate after
updateBackReference(doc) ==
    IF ~isCancelled(doc) /\ ~isSubmitted(doc)
    THEN [loaded |-> FALSE, items |-> invItems, total |-> invTotal]
    ELSE IF Falsy(doc.backReference)
    THEN [loaded |-> FALSE, items |-> invItems, total |-> invTotal]
    ELSE LET rows == reconcileRows(invItems, getTransferMap(doc), isCancelled(doc))
         IN  [loaded |-> TRUE, items |-> rows,
              total |-> getStockNotTransferred(rows)]

\* Doc.duplicate: a new draft with the fields of doc
superDuplicate(doc) == [doc EXCEPT !.status = "Draft"]

\* duplicate that keeps the backReference of the original
duplicate_keepsBackReference(doc) == superDuplicate(doc)

duplicate(doc) == [superDuplicate(doc) EXCEPT !.backReference = Undefined]

(***************************************************************************)
(* validateAccounts                                                        *)
(***************************************************************************)
SettingNames == {"stockInHand", "costOfGoodsSold", "stockReceivedButNotBilled"}
AccountNames == {"Stock", "COGS", "SRBNB"}
SettingValues == AccountNames \cup {Undefined, Empty}

ValidSettings ==
    [stockInHand |-> "Stock", costOfGoodsSold |-> "COGS",
     stockReceivedButNotBilled |-> "SRBNB"]

\* fyo.getField(InventorySettings, setting).label
Label(setting) ==
    CASE setting = "stockInHand" -> "Stock In Hand"
      [] setting = "costOfGoodsSold" -> "Cost Of Goods Sold"
      [] OTHER -> "Stock Received But Not Billed"

\* t`${field.label} account not set in Inventory Settings.`
NotSetMessage(setting) == [kind |-> "notSet", about |-> Label(setting)]
\* t`Account ${value} does not exist.`
NotExistMessage(value) == [kind |-> "notExist", about |-> value]

\* the settings list with the settings of the other direction
requiredSettings_swapped(sales) ==
    <<"stockInHand">>
    \o (IF sales THEN <<"stockReceivedButNotBilled">> ELSE <<"costOfGoodsSold">>)

\* the settings list validateAccounts builds
requiredSettings(sales) ==
    <<"stockInHand">>
    \o (IF sales THEN <<"costOfGoodsSold">> ELSE <<"stockReceivedButNotBilled">>)

\* the loop over the settings: the messages pushed and the values handed to
\* fyo.db.exists, in order
RECURSIVE validateLoop(_, _, _, _, _)
validateLoop(names, conf, existing, messages, checked) ==
    IF names = <<>> THEN [messages |-> messages, checked |-> checked]
    ELSE LET setting == Head(names)
             value == conf[setting]
         IN  IF Falsy(value)
             THEN validateLoop(Tail(names), conf, existing,
                               Append(messages, NotSetMessage(setting)), checked)
             ELSE IF value \notin existing
             THEN validateLoop(Tail(names), conf, existing,
                               Append(messages, NotExistMessage(value)),
                               Append(checked, value))
             ELSE validateLoop(Tail(names), conf, existing,
                               messages, Append(checked, value))

\* the loop, throwing at the first problem it meets
RECURSIVE validateLoop_failFast(_, _, _, _, _)
validateLoop_failFast(names, conf, existing, messages, checked) ==
    IF names = <<>> \/ messages # <<>>
    THEN [messages |-> messages, checked |-> checked]
    ELSE LET setting == Head(names)
             value == conf[setting]
         IN  IF Falsy(value)
             THEN validateLoop_failFast(Tail(names), conf, existing,
                               Append(messages, NotSetMessage(setting)), checked)
             ELSE IF value \notin existing
             THEN validateLoop_failFast(Tail(names), conf, existing,
                               Append(messages, NotExistMessage(value)),
                               Append(checked, value))
             ELSE validateLoop_failFast(Tail(names), conf, existing,
                               messages, Append(checked, value))

validateAccounts_failFast(sales, conf, existing) ==
    LET r == validateLoop_failFast(requiredSettings(sales), conf, existing, <<>>, <<>>)
    IN  [thrown |-> r.messages # <<>>, messages |-> r.messages, checked |-> r.checked]

\* validateAccounts: thrown with the joined messages when there are any
validateAccounts(sales, conf, existing) ==
    LET r == validateLoop(requiredSettings(sales), conf, existing, <<>>, <<>>)
    IN  [thrown |-> r.messages # <<>>, messages |-> r.messages, checked |-> r.checked]

(***************************************************************************)
(* LedgerPosting and getPosting                                            *)
(***************************************************************************)
RoundOffAccount == "Round Off"

\* LedgerPosting.debit / LedgerPosting.credit: one more entry
debit(posting, account, amount) ==
    Append(posting, [account |-> account, side |-> "debit", amount |-> amount])
credit(posting, account, amount) ==
    Append(posting, [account |-> account, side |-> "credit", amount |-> amount])

RECURSIVE SumSide(_, _)
SumSide(posting, side) ==
    IF posting = <<>> THEN 0
    ELSE (IF Head(posting).side = side THEN Head(posting).amount ELSE 0)
         + SumSide(Tail(posting), side)

\* LedgerPosting.makeRoundOffEntry: an entry on the lighter side for the
\* difference of the sides, none when they are equal
makeRoundOffEntry(posting) ==
    LET difference == SumSide(posting, "debit") - SumSide(posting, "credit")
    IN  IF difference = 0 THEN posting
        ELSE IF difference > 0 THEN credit(posting, RoundOffAccount, difference)
        ELSE debit(posting, RoundOffAccount, 0 - difference)

\* getPosting with the accounts of the two directions exchanged
getPosting_swapped(sales, total, conf, existing) ==
    LET v == validateAccounts(sales, conf, existing)
        stockInHand == conf["stockInHand"]
        amount == OrElse(total, 0)
    IN  IF v.thrown
        THEN [op |-> "getPosting", kind |-> "error", entries |-> <<>>,
              messages |-> v.messages, checked |-> v.checked]
        ELSE [op |-> "getPosting", kind |-> "posting",
              entries |->
                IF ~sales
                THEN makeRoundOffEntry(
                       credit(debit(<<>>, conf["costOfGoodsSold"], amount),
                              stockInHand, amount))
                ELSE makeRoundOffEntry(
                       credit(debit(<<>>, stockInHand, amount),
                              conf["stockReceivedButNotBilled"], amount)),
              messages |-> <<>>, checked |-> v.checked]

\* getPosting that makes the round-off entry before the credit
getPosting_roundOffEarly(sales, total, conf, existing) ==
    LET v == validateAccounts(sales, conf, existing)
        stockInHand == conf["stockInHand"]
        amount == OrElse(total, 0)
    IN  IF v.thrown
        THEN [op |-> "getPosting", kind |-> "error", entries |-> <<>>,
              messages |-> v.messages, checked |-> v.checked]
        ELSE [op |-> "getPosting", kind |-> "posting",
              entries |->
                IF sales
                THEN credit(makeRoundOffEntry(
                              debit(<<>>, conf["costOfGoodsSold"], amount)),
                            stockInHand, amount)
                ELSE credit(makeRoundOffEntry(debit(<<>>, stockInHand, amount)),
                            conf["stockReceivedButNotBilled"], amount),
              messages |-> <<>>, checked |-> v.checked]

\* getPosting that builds the posting first and validates the accounts last
getPosting_validateLast(sales, total, conf, existing) ==
    LET v == validateAccounts(sales, conf, existing)
        stockInHand == conf["stockInHand"]
        amount == OrElse(total, 0)
        built == IF sales
                 THEN makeRoundOffEntry(
                        credit(debit(<<>>, conf["costOfGoodsSold"], amount),
                               stockInHand, amount))
                 ELSE makeRoundOffEntry(
                        credit(debit(<<>>, stockInHand, amount),
                               conf["stockReceivedButNotBilled"], amount))
    IN  IF v.thrown
        THEN [op |-> "getPosting", kind |-> "error", entries |-> built,
              messages |-> v.messages, checked |-> v.checked]
        ELSE [op |-> "getPosting", kind |-> "posting", entries |-> built,
              messages |-> <<>>, checked |-> v.checked]

\* getPosting that returns null when the amount is zero
getPosting_nullOnZero(sales, total, conf, existing) ==
    LET v == validateAccounts(sales, conf, existing)
        stockInHand == conf["stockInHand"]
        amount == OrElse(total, 0)
    IN  IF v.thrown
        THEN [op |-> "getPosting", kind |-> "error", entries |-> <<>>,
              messages |-> v.messages, checked |-> v.checked]
        ELSE IF amount = 0
        THEN [op |-> "getPosting", kind |-> "null", entries |-> <<>>,
              messages |-> <<>>, checked |-> v.checked]
        ELSE [op |-> "getPosting", kind |-> "posting",
              entries |->
                IF sales
                THEN makeRoundOffEntry(
                       credit(debit(<<>>, conf["costOfGoodsSold"], amount),
                              stockInHand, amount))
                ELSE makeRoundOffEntry(
                       credit(debit(<<>>, stockInHand, amount),
                              conf["stockReceivedButNotBilled"], amount)),
              messages |-> <<>>, checked |-> v.checked]

\* getPosting of a transfer of the given direction and grandTotal: the error
\* validateAccounts throws, or the posting returned
getPosting(sales, total, conf, existing) ==
    LET v == validateAccounts(sales, conf, existing)
        stockInHand == conf["stockInHand"]
        amount == OrElse(total, 0)
    IN  IF v.thrown
        THEN [op |-> "getPosting", kind |-> "error", entries |-> <<>>,
              messages |-> v.messages, checked |-> v.checked]
        ELSE [op |-> "getPosting", kind |-> "posting",
              entries |->
                IF sales
                THEN makeRoundOffEntry(
                       credit(debit(<<>>, conf["costOfGoodsSold"], amount),
                              stockInHand, amount))
                ELSE makeRoundOffEntry(
                       credit(debit(<<>>, stockInHand, amount),
                              conf["stockReceivedButNotBilled"], amount)),
              messages |-> <<>>, checked |-> v.checked]

\* a call of getPosting on the transfer
GetPosting ==
    /\ result' = getPosting(isSales, grandTotal, settings, accounts)
    /\ UNCHANGED <<isSales, grandTotal, settings, accounts>>
    /\ UNCHANGED reconVars
    /\ UNCHANGED mapVars
    /\ UNCHANGED stepVars

\* a call of validateAccounts on the transfer
ValidateAccounts ==
    /\ LET v == validateAccounts(isSales, settings, accounts)
       IN  result' = [op |-> "validateAccounts",
                      kind |-> IF v.thrown THEN "error" ELSE "valid",
                      entries |-> <<>>, messages |-> v.messages,
                      checked |-> v.checked]
    /\ UNCHANGED <<isSales, grandTotal, settings, accounts>>
    /\ UNCHANGED reconVars
    /\ UNCHANGED mapVars
    /\ UNCHANGED stepVars

(***************************************************************************)
(* Operations on the transfers                                             *)
(***************************************************************************)
NoSnapshot == [t |-> "none", phase |-> "none", rows |-> <<>>]

\* the effect of one _updateBackReference call of document doc on the invoice
Reconcile(doc) ==
    LET r == updateBackReference(doc)
    IN  /\ invItems' = r.items
        /\ invTotal' = r.total
        /\ loaded' = r.loaded

\* submit: the document becomes Submitted (Doc.submit), then afterSubmit runs:
\* super.afterSubmit commits the ledger posting, then _updateBackReference
Submit(t) ==
    /\ docs[t].status = "Draft"
    /\ docs' = [docs EXCEPT ![t].status = "Submitted"]
    /\ posted' = posted \cup {t}
    /\ Reconcile(docs'[t])
    /\ preSubmit' = IF loaded' THEN [t |-> t, phase |-> "submitted", rows |-> invItems]
                    ELSE preSubmit
    /\ UNCHANGED postingVars
    /\ UNCHANGED mapVars
    /\ UNCHANGED stepVars

\* cancel: the document becomes Cancelled (Doc.cancel), then afterCancel runs:
\* super.afterCancel reverts the ledger posting, then _updateBackReference
Cancel(t) ==
    /\ docs[t].status = "Submitted"
    /\ docs' = [docs EXCEPT ![t].status = "Cancelled"]
    /\ posted' = posted \ {t}
    /\ Reconcile(docs'[t])
    /\ preSubmit' = IF ~loaded' THEN preSubmit
                    ELSE IF preSubmit.t = t /\ preSubmit.phase = "submitted"
                    THEN [preSubmit EXCEPT !.phase = "cancelled"]
                    ELSE NoSnapshot
    /\ UNCHANGED postingVars
    /\ UNCHANGED mapVars
    /\ UNCHANGED stepVars

\* _updateBackReference called on a document outside submit and cancel
UpdateBackReference(t) ==
    /\ docs[t].status # "Absent"
    /\ Reconcile(docs[t])
    /\ preSubmit' = IF loaded' THEN NoSnapshot ELSE preSubmit
    /\ UNCHANGED <<docs, posted>>
    /\ UNCHANGED postingVars
    /\ UNCHANGED mapVars
    /\ UNCHANGED stepVars

\* a call of _getTransferMap on document t
GetTransferMap(t) ==
    /\ docs[t].status # "Absent"
    /\ lastMap' = Some(getTransferMap(docs[t]))
    /\ UNCHANGED reconVars
    /\ UNCHANGED postingVars
    /\ UNCHANGED stepVars

\* duplicate() of document t, inserted under the name d
Duplicate(t, d) ==
    /\ docs[t].status # "Absent"
    /\ docs[d].status = "Absent"
    /\ docs' = [docs EXCEPT ![d] = duplicate(docs[t])]
    /\ UNCHANGED <<invItems, invTotal, posted, loaded, preSubmit>>
    /\ UNCHANGED postingVars
    /\ UNCHANGED mapVars
    /\ UNCHANGED stepVars

(***************************************************************************)
(* Submit and cancel step by step: one action from each await to the next  *)
(***************************************************************************)
\* index of the first row at or after k whose item the map holds, 0 if there
\* is none: the rows before it take the loop's continue
RECURSIVE nextRow(_, _, _)
nextRow(rows, k, transferMap) ==
    IF k > Len(rows) THEN 0
    ELSE IF rows[k].item \in DOMAIN transferMap THEN k
    ELSE nextRow(rows, k + 1, transferMap)

\* RunToAwait that hands the transfer map on as it was before the row
RunToAwait_staleMap(t, cursor, transferMap) ==
    LET k == nextRow(invItems, cursor, transferMap)
    IN  IF k # 0
        THEN LET r == reconcileRow(invItems[k], transferMap, isCancelled(docs[t]))
             IN  /\ invItems' = [invItems EXCEPT ![k] = r.row]
                 /\ invTotal' = invTotal
                 /\ proc' = [proc EXCEPT ![t].pc = "rows",
                                         ![t].cursor = k + 1,
                                         ![t].transferMap = transferMap]
        ELSE /\ invItems' = invItems
             /\ invTotal' = getStockNotTransferred(invItems)
             /\ proc' = [proc EXCEPT ![t].pc = "sync",
                                     ![t].cursor = Len(invItems) + 1,
                                     ![t].transferMap = transferMap]

\* _updateBackReference of transfer t from a resumption to its next await:
\* the loop runs on to the next row.set, or past the last row to setAndSync
RunToAwait(t, cursor, transferMap) ==
    LET k == nextRow(invItems, cursor, transferMap)
    IN  IF k # 0
        THEN LET r == reconcileRow(invItems[k], transferMap, isCancelled(docs[t]))
             IN  /\ invItems' = [invItems EXCEPT ![k] = r.row]
                 /\ invTotal' = invTotal
                 /\ proc' = [proc EXCEPT ![t].pc = "rows",
                                         ![t].cursor = k + 1,
                                         ![t].transferMap = r.transferMap]
        ELSE /\ invItems' = invItems
             /\ invTotal' = getStockNotTransferred(invItems)
             /\ proc' = [proc EXCEPT ![t].pc = "sync",
                                     ![t].cursor = Len(invItems) + 1,
                                     ![t].transferMap = transferMap]

\* the invoice rows as they stood before the first submit or cancel began
Begun(t) ==
    IF \A u \in DocNames : proc[u].pc = "idle"
    THEN [t |-> t, phase |-> "begun", rows |-> invItems]
    ELSE preSubmit

\* the transfers suspended at an await of their submit or cancel
Suspended == { u \in DocNames : proc[u].pc \in {"hook", "load", "rows", "sync"} }

\* transfer t enters its afterSubmit or afterCancel; overlap records, for t and
\* for every suspended transfer, that they now run interleaved
Entered(t) ==
    [u \in DocNames |->
        IF u = t THEN [proc[t] EXCEPT !.pc = "hook", !.overlap = Suspended # {}]
        ELSE IF u \in Suspended THEN [proc[u] EXCEPT !.overlap = TRUE]
        ELSE proc[u]]

\* Doc.submit up to the call of afterSubmit: the document becomes Submitted
BeginSubmit(t) ==
    /\ docs[t].status = "Draft"
    /\ proc[t].pc = "idle"
    /\ docs' = [docs EXCEPT ![t].status = "Submitted"]
    /\ proc' = Entered(t)
    /\ preSubmit' = Begun(t)
    /\ UNCHANGED <<invItems, invTotal, posted, loaded>>
    /\ UNCHANGED postingVars
    /\ UNCHANGED mapVars

\* Doc.cancel up to the call of afterCancel: the document becomes Cancelled
BeginCancel(t) ==
    /\ docs[t].status = "Submitted"
    /\ proc[t].pc = "idle"
    /\ docs' = [docs EXCEPT ![t].status = "Cancelled"]
    /\ proc' = Entered(t)
    /\ preSubmit' = Begun(t)
    /\ UNCHANGED <<invItems, invTotal, posted, loaded>>
    /\ UNCHANGED postingVars
    /\ UNCHANGED mapVars

\* _updateBackReference from its entry to the await of getDoc
EnterUpdateBackReference(t) ==
    IF (~isCancelled(docs[t]) /\ ~isSubmitted(docs[t])) \/ Falsy(docs[t].backReference)
    THEN proc' = [proc EXCEPT ![t].pc = "done"]
    ELSE proc' = [proc EXCEPT ![t].pc = "load"]

\* afterSubmit: super.afterSubmit commits the ledger posting; when it has
\* resolved, _updateBackReference is entered
SuperAfterSubmit(t) ==
    /\ proc[t].pc = "hook"
    /\ isSubmitted(docs[t])
    /\ posted' = posted \cup {t}
    /\ EnterUpdateBackReference(t)
    /\ UNCHANGED <<invItems, invTotal, docs, loaded, preSubmit>>
    /\ UNCHANGED postingVars
    /\ UNCHANGED mapVars

\* afterCancel: super.afterCancel reverts the ledger posting; when it has
\* resolved, _updateBackReference is entered
SuperAfterCancel(t) ==
    /\ proc[t].pc = "hook"
    /\ isCancelled(docs[t])
    /\ posted' = posted \ {t}
    /\ EnterUpdateBackReference(t)
    /\ UNCHANGED <<invItems, invTotal, docs, loaded, preSubmit>>
    /\ UNCHANGED postingVars
    /\ UNCHANGED mapVars

\* getDoc resolves with the invoice; the transfer map is built and the loop
\* runs to its first await
LoadInvoice(t) ==
    /\ proc[t].pc = "load"
    /\ loaded' = TRUE
    /\ RunToAwait(t, 1, getTransferMap(docs[t]))
    /\ UNCHANGED <<docs, posted, preSubmit>>
    /\ UNCHANGED postingVars
    /\ UNCHANGED mapVars

\* a row.set resolves; the loop runs to its next await
RowSet(t) ==
    /\ proc[t].pc = "rows"
    /\ RunToAwait(t, proc[t].cursor, proc[t].transferMap)
    /\ UNCHANGED <<docs, posted, loaded, preSubmit>>
    /\ UNCHANGED postingVars
    /\ UNCHANGED mapVars

\* setAndSync resolves; _updateBackReference returns
SetAndSync(t) ==
    /\ proc[t].pc = "sync"
    /\ proc' = [proc EXCEPT ![t].pc = "done"]
    /\ UNCHANGED reconVars
    /\ UNCHANGED postingVars
    /\ UNCHANGED mapVars

\* the write the loop would issue next (a row.set, or setAndSync after the
\* last row) rejects: nothing is written, the exception leaves
\* _updateBackReference, which has no try, catch or finally
WriteFails(t) ==
    /\ proc[t].pc \in {"load", "rows"}
    /\ LET from == IF proc[t].pc = "load" THEN 1 ELSE proc[t].cursor
           map == IF proc[t].pc = "load" THEN getTransferMap(docs[t])
                  ELSE proc[t].transferMap
           k == nextRow(invItems, from, map)
       IN  proc' = [proc EXCEPT ![t].pc = "failed",
                                ![t].cursor = IF k # 0 THEN k ELSE Len(invItems) + 1,
                                ![t].transferMap = map]
    /\ loaded' = TRUE
    /\ UNCHANGED <<invItems, invTotal, docs, posted, preSubmit>>
    /\ UNCHANGED postingVars
    /\ UNCHANGED mapVars

\* the application stops while a submit or cancel is suspended at an await
Crash ==
    /\ Suspended # {}
    /\ proc' = [t \in DocNames |->
                  IF t \in Suspended
                  THEN [proc[t] EXCEPT !.pc = "crashed"]
                  ELSE proc[t]]
    /\ UNCHANGED reconVars
    /\ UNCHANGED postingVars
    /\ UNCHANGED mapVars

(***************************************************************************)
(* Initial states: an invoice and the transfers drafted against it         *)
(***************************************************************************)
InvoiceRows ==
    { [item |-> i, quantity |-> q, stockNotTransferred |-> Some(n)] :
        i \in Items, q \in 1..MaxQty, n \in 0..MaxQty }

TransferRows ==
    { [item |-> i, quantity |-> Some(q)] : i \in Items, q \in 0..MaxQty }

SeqsOf(S, counts) == UNION { [1..n -> S] : n \in counts }

\* the invoices of the examples: one row of A 10/10; two rows of B 5/5
ExampleA == << [item |-> "A", quantity |-> 10, stockNotTransferred |-> Some(10)] >>
ExampleB ==
    << [item |-> "B", quantity |-> 5, stockNotTransferred |-> Some(5)],
       [item |-> "B", quantity |-> 5, stockNotTransferred |-> Some(5)] >>
ExampleInvoices == {ExampleA, ExampleB}

\* the transfers of the examples: A 4; B 7
ExampleTransfers ==
    { << [item |-> "A", quantity |-> Some(4)] >>,
      << [item |-> "B", quantity |-> Some(7)] >> }

Invoices ==
    { rows \in SeqsOf(InvoiceRows, RowCounts) :
        \A k \in 1..Len(rows) :
            ValueOf(rows[k].stockNotTransferred) <= rows[k].quantity }
    \cup ExampleInvoices

Draft(items) == [status |-> "Draft", backReference |-> InvoiceName, items |-> items]

NoResult ==
    [op |-> "none", kind |-> "none", entries |-> <<>>, messages |-> <<>>,
     checked |-> <<>>]

\* one invoice, some of its stock possibly transferred by earlier transfers,
\* and one draft transfer linked to it; Inventory Settings are complete
Init ==
    /\ invItems \in Invoices
    /\ invTotal = getStockNotTransferred(invItems)
    /\ \E rows \in SeqsOf(TransferRows, RowCounts) \cup ExampleTransfers :
          docs = [n \in DocNames |->
                    IF n \in TransferNames THEN Draft(rows) ELSE AbsentDoc]
    /\ posted = {}
    /\ loaded = FALSE
    /\ preSubmit = NoSnapshot
    /\ isSales = TRUE
    /\ grandTotal = None
    /\ settings = ValidSettings
    /\ accounts = AccountNames
    /\ result = NoResult
    /\ lastMap = None
    /\ proc = [n \in DocNames |-> IdleProc]

Next ==
    \/ \E t \in DocNames : Submit(t)
    \/ \E t \in DocNames : Cancel(t)
    \/ \E t \in DocNames : UpdateBackReference(t)
    \/ \E t \in DocNames, d \in DuplicateNames : Duplicate(t, d)

Spec == Init /\ [][Next]_vars

(***************************************************************************)
(* Posting: a transfer of either direction under any Inventory Settings     *)
(***************************************************************************)
InitPosting ==
    /\ invItems = ExampleA
    /\ invTotal = getStockNotTransferred(invItems)
    /\ docs = [n \in DocNames |->
                 IF n \in TransferNames
                 THEN Draft(<< [item |-> "A", quantity |-> Some(4)] >>)
                 ELSE AbsentDoc]
    /\ posted = {}
    /\ loaded = FALSE
    /\ preSubmit = NoSnapshot
    /\ isSales \in BOOLEAN
    /\ grandTotal \in {None} \cup { Some(a) : a \in 0..MaxAmount }
    /\ settings \in [SettingNames -> SettingValues]
    /\ accounts \in SUBSET AccountNames
    /\ result = NoResult
    /\ lastMap = None
    /\ proc = [n \in DocNames |-> IdleProc]

NextPosting ==
    \/ GetPosting
    \/ ValidateAccounts

SpecPosting == InitPosting /\ [][NextPosting]_vars

(***************************************************************************)
(* Transfer map: transfers whose rows may lack the item or the quantity    *)
(***************************************************************************)
MapRowCounts == {1, 2, 3}

MapRows ==
    { [item |-> i, quantity |-> q] :
        i \in Items \cup {Undefined},
        q \in {None} \cup { Some(n) : n \in 0..MaxQty } }

InitMap ==
    /\ invItems = ExampleA
    /\ invTotal = getStockNotTransferred(invItems)
    /\ \E rows \in SeqsOf(MapRows, MapRowCounts) :
          docs = [n \in DocNames |->
                    IF n \in TransferNames THEN Draft(rows) ELSE AbsentDoc]
    /\ posted = {}
    /\ loaded = FALSE
    /\ preSubmit = NoSnapshot
    /\ isSales = TRUE
    /\ grandTotal = None
    /\ settings = ValidSettings
    /\ accounts = AccountNames
    /\ result = NoResult
    /\ lastMap = None
    /\ proc = [n \in DocNames |-> IdleProc]

NextMap == \E t \in DocNames : GetTransferMap(t)

SpecMap == InitMap /\ [][NextMap]_vars

(***************************************************************************)
(* Invoices whose rows may lack stockNotTransferred                        *)
(***************************************************************************)
OptionalRows ==
    { [item |-> i, quantity |-> q, stockNotTransferred |-> n] :
        i \in Items, q \in 1..MaxQty,
        n \in {None} \cup { Some(v) : v \in 0..MaxQty } }

InitRows ==
    /\ invItems \in { rows \in SeqsOf(OptionalRows, RowCounts) :
                        \A k \in 1..Len(rows) :
                            OrElse(rows[k].stockNotTransferred, 0) <= rows[k].quantity }
    /\ invTotal = getStockNotTransferred(invItems)
    /\ \E rows \in SeqsOf(TransferRows, RowCounts) :
          docs = [n \in DocNames |->
                    IF n \in TransferNames THEN Draft(rows) ELSE AbsentDoc]
    /\ posted = {}
    /\ loaded = FALSE
    /\ preSubmit = NoSnapshot
    /\ isSales = TRUE
    /\ grandTotal = None
    /\ settings = ValidSettings
    /\ accounts = AccountNames
    /\ result = NoResult
    /\ lastMap = None
    /\ proc = [n \in DocNames |-> IdleProc]

NextRows ==
    \/ \E t \in DocNames : Submit(t)
    \/ \E t \in DocNames : Cancel(t)

SpecRows == InitRows /\ [][NextRows]_vars

(***************************************************************************)
(* Two transfers drafted against the same invoice                          *)
(***************************************************************************)
\* a transfer with one row for each item; a row of quantity 0 moves nothing
TwoItemTransfers ==
    { << [item |-> "A", quantity |-> Some(a)], [item |-> "B", quantity |-> Some(b)] >> :
        a \in 0..MaxQty, b \in 0..MaxQty }

InitTwo ==
    /\ invItems \in Invoices
    /\ invTotal = getStockNotTransferred(invItems)
    /\ \E rows1 \in TwoItemTransfers, rows2 \in TwoItemTransfers :
          docs = [n \in DocNames |->
                    IF n \in TransferNames THEN Draft(rows1)
                    ELSE IF n \in SecondNames THEN Draft(rows2)
                    ELSE AbsentDoc]
    /\ posted = {}
    /\ loaded = FALSE
    /\ preSubmit = NoSnapshot
    /\ isSales = TRUE
    /\ grandTotal = None
    /\ settings = ValidSettings
    /\ accounts = AccountNames
    /\ result = NoResult
    /\ lastMap = None
    /\ proc = [n \in DocNames |-> IdleProc]

\* each submit runs its reconciliation to the end before the next one starts
NextTwo == \E t \in DocNames : Submit(t)

SpecTwo == InitTwo /\ [][NextTwo]_vars

(***************************************************************************)
(* One submit or cancel, step by step, with crashes and failing writes     *)
(***************************************************************************)
InitCrash ==
    /\ invItems \in Invoices
    /\ invTotal = getStockNotTransferred(invItems)
    /\ \E rows \in TwoItemTransfers, status \in {"Draft", "Submitted"} :
          /\ docs = [n \in DocNames |->
                       IF n \in TransferNames
                       THEN [Draft(rows) EXCEPT !.status = status]
                       ELSE AbsentDoc]
          /\ posted = IF status = "Submitted" THEN TransferNames ELSE {}
    /\ loaded = FALSE
    /\ preSubmit = NoSnapshot
    /\ isSales = TRUE
    /\ grandTotal = None
    /\ settings = ValidSettings
    /\ accounts = AccountNames
    /\ result = NoResult
    /\ lastMap = None
    /\ proc = [n \in DocNames |-> IdleProc]

StepNext ==
    \/ \E t \in DocNames : BeginSubmit(t)
    \/ \E t \in DocNames : BeginCancel(t)
    \/ \E t \in DocNames : SuperAfterSubmit(t)
    \/ \E t \in DocNames : SuperAfterCancel(t)
    \/ \E t \in DocNames : LoadInvoice(t)
    \/ \E t \in DocNames : RowSet(t)
    \/ \E t \in DocNames : SetAndSync(t)

NextCrash ==
    \/ StepNext
    \/ \E t \in DocNames : WriteFails(t)
    \/ Crash

SpecCrash == InitCrash /\ [][NextCrash]_vars

(***************************************************************************)
(* Two transfers of one invoice, their submits and cancels interleaved     *)
(***************************************************************************)
OneRowTransfers ==
    { << [item |-> i, quantity |-> Some(q)] >> : i \in Items, q \in 1..MaxQty }

InitInterleave ==
    /\ invItems \in Invoices
    /\ invTotal = getStockNotTransferred(invItems)
    /\ \E rows1 \in OneRowTransfers, rows2 \in OneRowTransfers,
          status \in {"Draft", "Submitted"} :
          /\ docs = [n \in DocNames |->
                       IF n \in TransferNames THEN Draft(rows1)
                       ELSE IF n \in SecondNames
                       THEN [Draft(rows2) EXCEPT !.status = status]
                       ELSE AbsentDoc]
          /\ posted = IF status = "Submitted" THEN SecondNames ELSE {}
    /\ loaded = FALSE
    /\ preSubmit = NoSnapshot
    /\ isSales = TRUE
    /\ grandTotal = None
    /\ settings = ValidSettings
    /\ accounts = AccountNames
    /\ result = NoResult
    /\ lastMap = None
    /\ proc = [n \in DocNames |-> IdleProc]

SpecInterleave == InitInterleave /\ [][StepNext]_vars

(***************************************************************************)
(* Reconciliation: properties                                              *)
(***************************************************************************)
StockOf(row) == ValueOf(row.stockNotTransferred)

\* the transfer's total quantity for item i, summed over its rows
RECURSIVE TotalFor(_, _)
TotalFor(rows, i) ==
    IF rows = <<>> THEN 0
    ELSE (IF Head(rows).item = i THEN OrElse(Head(rows).quantity, 0) ELSE 0)
         + TotalFor(Tail(rows), i)

\* sum of f over the rows before row k that carry the same item as row k
RECURSIVE EarlierSum(_, _, _, _)
EarlierSum(rows, k, j, usesQuantity) ==
    IF j >= k THEN 0
    ELSE (IF rows[j].item = rows[k].item
          THEN (IF usesQuantity THEN rows[j].quantity - StockOf(rows[j])
                ELSE StockOf(rows[j]))
          ELSE 0)
         + EarlierSum(rows, k, j + 1, usesQuantity)

\* C1: after every event every invoice row keeps
\* 0 <= stockNotTransferred <= quantity
ReconciliationBounds ==
    \A k \in 1..Len(invItems) :
        /\ IsDefined(invItems[k].stockNotTransferred)
        /\ 0 <= StockOf(invItems[k])
        /\ StockOf(invItems[k]) <= invItems[k].quantity

\* C1 witness: a transfer was submitted and cancelled against a row that stood
\* below its quantity, and the row now stands at its quantity
ReconciliationBoundsWitness ==
    /\ preSubmit.phase = "cancelled"
    /\ \E k \in 1..Len(invItems) :
          /\ StockOf(preSubmit.rows[k]) < invItems[k].quantity
          /\ StockOf(invItems[k]) = invItems[k].quantity
          /\ TotalFor(docs[preSubmit.t].items, invItems[k].item) > invItems[k].quantity

\* C2: submit followed by cancel of the same transfer, nothing reconciled in
\* between, leaves every invoice row's stockNotTransferred as before the submit
Reversibility ==
    preSubmit.phase = "cancelled" => invItems = preSubmit.rows

\* C3: on submit the rows of an item consume the transfer's quantity for the
\* item in stored order: row k ends at max(n_k - r_k, 0), where r_k is what the
\* earlier rows of the item left of the total, max(total - sum of their n, 0);
\* rows of B 5 and 5 with a transfer of 7 end at 0 and 3
SubmitConsumesInOrder ==
    [][\A t \in DocNames :
          (/\ docs[t].status = "Draft"
           /\ docs'[t].status = "Submitted"
           /\ ~Falsy(docs[t].backReference))
          => /\ Len(invItems') = Len(invItems)
             /\ \A k \in 1..Len(invItems) :
                  LET total == TotalFor(docs[t].items, invItems[k].item)
                      residual == Max(total - EarlierSum(invItems, k, 1, FALSE), 0)
                  IN  invItems'[k] =
                        [invItems[k] EXCEPT !.stockNotTransferred =
                            Some(Max(StockOf(invItems[k]) - residual, 0))]
             /\ (invItems = ExampleB /\ docs[t].items = << [item |-> "B", quantity |-> Some(7)] >>)
                  => (StockOf(invItems'[1]) = 0 /\ StockOf(invItems'[2]) = 3)
      ]_vars

\* C3 witness: the transfer of B 7 was submitted against the rows B 5, B 5,
\* which now stand at 0 and 3
SubmitConsumesInOrderWitness ==
    /\ preSubmit.phase = "submitted"
    /\ preSubmit.rows = ExampleB
    /\ docs[preSubmit.t].items = << [item |-> "B", quantity |-> Some(7)] >>
    /\ StockOf(invItems[1]) = 0
    /\ StockOf(invItems[2]) = 3

\* C4: on cancel the rows of an item take the transfer's quantity for the item
\* back in stored order, each capped at its quantity: row k ends at
\* min(n_k + r_k, q_k), where r_k is what the earlier rows of the item left of
\* the total, max(total - sum of their (q - n), 0)
CancelRestoresInOrder ==
    [][\A t \in DocNames :
          (/\ docs[t].status = "Submitted"
           /\ docs'[t].status = "Cancelled"
           /\ ~Falsy(docs[t].backReference))
          => /\ Len(invItems') = Len(invItems)
             /\ \A k \in 1..Len(invItems) :
                  LET total == TotalFor(docs[t].items, invItems[k].item)
                      residual == Max(total - EarlierSum(invItems, k, 1, TRUE), 0)
                  IN  invItems'[k] =
                        [invItems[k] EXCEPT !.stockNotTransferred =
                            Some(Min(StockOf(invItems[k]) + residual,
                                     invItems[k].quantity))]
      ]_vars

\* C4 witness: the transfer of B 7, submitted against the rows B 5, B 5 (then
\* at 0 and 3), was cancelled: the first row took 5 of the 7 and was capped,
\* the second took the remaining 2
CancelRestoresInOrderWitness ==
    /\ preSubmit.phase = "cancelled"
    /\ preSubmit.rows = ExampleB
    /\ docs[preSubmit.t].items = << [item |-> "B", quantity |-> Some(7)] >>
    /\ StockOf(invItems[1]) = 5
    /\ StockOf(invItems[2]) = 5

\* C5: _updateBackReference of a document that is neither Submitted nor
\* Cancelled, or that has no backReference, loads no invoice and leaves the
\* invoice's rows and aggregate as they were
NoOpReconciliation ==
    [][\A t \in DocNames :
          (/\ Submit(t) \/ Cancel(t) \/ UpdateBackReference(t)
           /\ \/ docs'[t].status \notin {"Submitted", "Cancelled"}
              \/ Falsy(docs'[t].backReference))
          => (~loaded' /\ invItems' = invItems /\ invTotal' = invTotal)
      ]_vars

\* C5 witness: the linked transfer was submitted (loading the invoice), and
\* after it a document without backReference was submitted (loading nothing)
NoOpReconciliationWitness ==
    /\ docs["T1"].status = "Submitted"
    /\ docs["D1"].status = "Submitted"
    /\ Falsy(docs["D1"].backReference)
    /\ invItems # preSubmit.rows
    /\ ~loaded

\* C6: a duplicate has no backReference, and no submit, cancel or
\* reconciliation of a duplicate changes the invoice's rows or aggregate
DuplicateLeavesInvoice ==
    /\ [](\A d \in DuplicateNames :
            docs[d].status # "Absent" => docs[d].backReference = Undefined)
    /\ [][\A d \in DuplicateNames :
            (Submit(d) \/ Cancel(d) \/ UpdateBackReference(d))
            => (invItems' = invItems /\ invTotal' = invTotal)
       ]_vars

\* C6 witness: the duplicate of a transfer of B 7 was submitted and cancelled
\* while the original stayed a draft, and the rows B 5, B 5 still stand at 5, 5
DuplicateLeavesInvoiceWitness ==
    /\ docs["T1"].status = "Draft"
    /\ docs["T1"].backReference = InvoiceName
    /\ docs["D1"].status = "Cancelled"
    /\ docs["D1"].items = << [item |-> "B", quantity |-> Some(7)] >>
    /\ invItems = ExampleB

(***************************************************************************)
(* Posting: properties                                                     *)
(***************************************************************************)
Range(f) == { f[k] : k \in DOMAIN f }

RequiredSet(sales) ==
    {"stockInHand"}
    \cup (IF sales THEN {"costOfGoodsSold"} ELSE {"stockReceivedButNotBilled"})

NotRequired(sales) ==
    IF sales THEN "stockReceivedButNotBilled" ELSE "costOfGoodsSold"

\* the required settings that are unset or name an account that does not exist
Problems == { s \in RequiredSet(isSales) :
                Falsy(settings[s]) \/ settings[s] \notin accounts }

\* C7: the posting of an outbound transfer debits costOfGoodsSold and credits
\* stockInHand, that of an inbound transfer debits stockInHand and credits
\* stockReceivedButNotBilled, both entries with the transfer's total amount
DirectionCorrectness ==
    result.kind = "posting" =>
        /\ Len(result.entries) >= 2
        /\ result.entries[1] =
             [account |-> IF isSales THEN settings["costOfGoodsSold"]
                          ELSE settings["stockInHand"],
              side |-> "debit", amount |-> OrElse(grandTotal, 0)]
        /\ result.entries[2] =
             [account |-> IF isSales THEN settings["stockInHand"]
                          ELSE settings["stockReceivedButNotBilled"],
              side |-> "credit", amount |-> OrElse(grandTotal, 0)]

\* C7 witness: getPosting returned the posting of an inbound transfer with a
\* positive total and three different accounts configured
DirectionCorrectnessWitness ==
    /\ result.kind = "posting"
    /\ ~isSales
    /\ OrElse(grandTotal, 0) > 0
    /\ settings = ValidSettings

\* C8: in the posting getPosting returns the debits sum to the credits
BalanceInvariant ==
    result.kind = "posting" =>
        SumSide(result.entries, "debit") = SumSide(result.entries, "credit")

\* C8 witness: getPosting returned the posting of an outbound transfer with a
\* positive total
BalanceInvariantWitness ==
    /\ result.kind = "posting"
    /\ isSales
    /\ OrElse(grandTotal, 0) > 0
    /\ SumSide(result.entries, "debit") > 0

\* C9: validateAccounts succeeds exactly when no required setting has a
\* problem, and the error it throws holds one message for every required
\* setting that is unset or names an account that does not exist
ValidationAggregation ==
    result.op = "validateAccounts" =>
        /\ (result.kind = "valid") <=> (Problems = {})
        /\ (result.kind = "error") <=> (Problems # {})
        /\ Len(result.messages) = Cardinality(Problems)
        /\ \A s \in Problems :
             \/ Falsy(settings[s]) /\ NotSetMessage(s) \in Range(result.messages)
             \/ ~Falsy(settings[s])
                  /\ NotExistMessage(settings[s]) \in Range(result.messages)

\* C9 witness: validateAccounts threw with two messages, the first required
\* setting unset and the second naming an account that does not exist
ValidationAggregationWitness ==
    /\ result.op = "validateAccounts"
    /\ result.kind = "error"
    /\ Cardinality(Problems) = 2
    /\ Falsy(settings["stockInHand"])
    /\ Len(result.messages) = 2

\* C10: validateAccounts looks at stockInHand and at costOfGoodsSold
\* (outbound) or stockReceivedButNotBilled (inbound) and at nothing else: an
\* unset one yields a 'not set' message and no existence check, a set one is
\* checked for existence and yields a 'does not exist' message when the
\* account is missing, and whatever the third setting holds the outcome is the
\* same
RequiredSettings ==
    result.op = "validateAccounts" =>
        LET first == settings["stockInHand"]
            second == settings[IF isSales THEN "costOfGoodsSold"
                               ELSE "stockReceivedButNotBilled"]
            secondName == IF isSales THEN "costOfGoodsSold"
                          ELSE "stockReceivedButNotBilled"
            MessagesOf(name, value) ==
                IF Falsy(value) THEN << NotSetMessage(name) >>
                ELSE IF value \notin accounts THEN << NotExistMessage(value) >>
                ELSE <<>>
            ChecksOf(value) == IF Falsy(value) THEN <<>> ELSE << value >>
        IN  /\ result.messages =
                 MessagesOf("stockInHand", first) \o MessagesOf(secondName, second)
            /\ result.checked = ChecksOf(first) \o ChecksOf(second)
            /\ \A v \in SettingValues :
                 LET other == validateAccounts(
                                isSales,
                                [settings EXCEPT ![NotRequired(isSales)] = v],
                                accounts)
                 IN  /\ other.messages = result.messages
                     /\ other.checked = result.checked
                     /\ other.thrown = (result.kind = "error")

\* C10 witness: validateAccounts of an outbound transfer, stockInHand unset,
\* costOfGoodsSold naming a missing account, stockReceivedButNotBilled unset:
\* one 'not set' message, one 'does not exist' message, one existence check
RequiredSettingsWitness ==
    /\ result.op = "validateAccounts"
    /\ isSales
    /\ settings["stockInHand"] = Undefined
    /\ settings["costOfGoodsSold"] = "COGS"
    /\ "COGS" \notin accounts
    /\ settings["stockReceivedButNotBilled"] = Empty
    /\ result.messages = << NotSetMessage("stockInHand"), NotExistMessage("COGS") >>
    /\ result.checked = << "COGS" >>

\* C11: when a required setting is unset or names a missing account,
\* getPosting throws the validation error, no posting exists and no entry was
\* added to one, and the invoice is as it was
ErrorBeforePosting ==
    (result.op = "getPosting" /\ Problems # {}) =>
        /\ result.kind = "error"
        /\ result.messages # <<>>
        /\ result.entries = <<>>
        /\ invItems = ExampleA
        /\ invTotal = getStockNotTransferred(ExampleA)

\* C11 witness: getPosting was called with stockInHand unset and threw
ErrorBeforePostingWitness ==
    /\ result.op = "getPosting"
    /\ settings["stockInHand"] = Undefined
    /\ result.kind = "error"
    /\ NotSetMessage("stockInHand") \in Range(result.messages)

\* C17: with valid accounts and a total of zero (or grandTotal not set),
\* getPosting throws nothing and returns a posting holding the debit and the
\* credit entry, each with amount zero
ZeroTotalPosting ==
    (result.op = "getPosting" /\ Problems = {} /\ OrElse(grandTotal, 0) = 0) =>
        /\ result.kind = "posting"
        /\ Len(result.entries) >= 2
        /\ result.entries[1].side = "debit" /\ result.entries[1].amount = 0
        /\ result.entries[2].side = "credit" /\ result.entries[2].amount = 0

\* C17 witness: getPosting of a transfer whose grandTotal is not set returned
\* a posting
ZeroTotalPostingWitness ==
    /\ result.op = "getPosting"
    /\ grandTotal = None
    /\ Problems = {}
    /\ result.kind = "posting"
    /\ Len(result.entries) = 2

(***************************************************************************)
(* Reconciliation: aggregate and per-item sums                             *)
(***************************************************************************)
\* sum of stockNotTransferred over the rows of item i
RECURSIVE ItemSum(_, _)
ItemSum(rows, i) ==
    IF rows = <<>> THEN 0
    ELSE (IF Head(rows).item = i THEN OrElse(Head(rows).stockNotTransferred, 0) ELSE 0)
         + ItemSum(Tail(rows), i)

\* sum of stockNotTransferred over all rows, item by item
RowSum(rows) ==
    LET present == { rows[k].item : k \in 1..Len(rows) }
        RECURSIVE Over(_)
        Over(S) == IF S = {} THEN 0
                   ELSE LET i == CHOOSE x \in S : TRUE
                        IN  ItemSum(rows, i) + Over(S \ {i})
    IN  Over(present)

\* C13: after a completed reconciliation the invoice's aggregate is the sum of
\* the rows' stockNotTransferred as they stand after the update
AggregateMatchesRows ==
    loaded => invTotal = RowSum(invItems)

\* C13 witness: a submit changed the rows, and the aggregate is their new sum,
\* not the old one
AggregateMatchesRowsWitness ==
    /\ loaded
    /\ preSubmit.phase = "submitted"
    /\ invItems # preSubmit.rows
    /\ invTotal = RowSum(invItems)
    /\ invTotal # RowSum(preSubmit.rows)

\* C19: after submit and cancel of a transfer (nothing reconciled in between),
\* for every item whose transferred total did not exceed the rows' sum of
\* stockNotTransferred before the submit, that sum is what it was
PerItemSumRestored ==
    preSubmit.phase = "cancelled" =>
        \A i \in Items :
            TotalFor(docs[preSubmit.t].items, i) <= ItemSum(preSubmit.rows, i)
            => ItemSum(invItems, i) = ItemSum(preSubmit.rows, i)

\* C19 witness: a transfer within the rows' sum was submitted and cancelled,
\* the rows differ from the rows before the submit, the per-item sums do not
PerItemSumRestoredWitness ==
    /\ preSubmit.phase = "cancelled"
    /\ invItems # preSubmit.rows
    /\ \E i \in Items : TotalFor(docs[preSubmit.t].items, i) > 0
    /\ \A i \in Items :
          /\ TotalFor(docs[preSubmit.t].items, i) <= ItemSum(preSubmit.rows, i)
          /\ ItemSum(invItems, i) = ItemSum(preSubmit.rows, i)

(***************************************************************************)
(* Transfer map: properties                                                *)
(***************************************************************************)
\* the items of the rows that satisfy the test
ItemsWhere(rows, Test(_)) ==
    { rows[k].item : k \in { j \in 1..Len(rows) : Test(rows[j]) } }

\* C12 as stated: every row with a defined item and a defined quantity, zero
\* included, adds to the item's total, so such an item is in the map
TransferMapCountsZero ==
    IsDefined(lastMap) =>
        LET rows == docs["T1"].items
            Counted(row) == ~Falsy(row.item) /\ IsDefined(row.quantity)
        IN  /\ DOMAIN ValueOf(lastMap) = ItemsWhere(rows, Counted)
            /\ \A i \in DOMAIN ValueOf(lastMap) :
                 ValueOf(lastMap)[i] = TotalFor(rows, i)

\* C12 amended: every row with a defined item and a defined quantity other
\* than zero adds its quantity to the item's total; rows without item, without
\* quantity or with quantity zero are skipped, so an item whose rows all have
\* quantity zero is not in the map
TransferMapSkipsZero ==
    IsDefined(lastMap) =>
        LET rows == docs["T1"].items
            Counted(row) == /\ ~Falsy(row.item)
                            /\ IsDefined(row.quantity)
                            /\ ValueOf(row.quantity) # 0
        IN  /\ DOMAIN ValueOf(lastMap) = ItemsWhere(rows, Counted)
            /\ \A i \in DOMAIN ValueOf(lastMap) :
                 ValueOf(lastMap)[i] = TotalFor(rows, i)

\* C12 witness: the map of the rows A 0, B 1, B 2 holds B with 3 and no A
TransferMapSkipsZeroWitness ==
    /\ IsDefined(lastMap)
    /\ docs["T1"].items = << [item |-> "A", quantity |-> Some(0)],
                             [item |-> "B", quantity |-> Some(1)],
                             [item |-> "B", quantity |-> Some(2)] >>
    /\ DOMAIN ValueOf(lastMap) = {"B"}
    /\ ValueOf(lastMap)["B"] = 3

(***************************************************************************)
(* Rows without a map entry, rows without stockNotTransferred              *)
(***************************************************************************)
\* EarlierSum with an undefined stockNotTransferred counted as 0
RECURSIVE EarlierSumOr(_, _, _, _)
EarlierSumOr(rows, k, j, usesQuantity) ==
    IF j >= k THEN 0
    ELSE (IF rows[j].item = rows[k].item
          THEN (IF usesQuantity
                THEN rows[j].quantity - OrElse(rows[j].stockNotTransferred, 0)
                ELSE OrElse(rows[j].stockNotTransferred, 0))
          ELSE 0)
         + EarlierSumOr(rows, k, j + 1, usesQuantity)

\* C16: on submit and on cancel a row whose item the transfer map does not
\* hold stays as it is, undefined stockNotTransferred included; a row whose
\* item it holds and whose stockNotTransferred is undefined ends where a row
\* with stockNotTransferred 0 would end
UndefinedCountsAsZero ==
    [][\A t \in DocNames :
          (/\ \/ docs[t].status = "Draft" /\ docs'[t].status = "Submitted"
              \/ docs[t].status = "Submitted" /\ docs'[t].status = "Cancelled"
           /\ ~Falsy(docs[t].backReference))
          => /\ Len(invItems') = Len(invItems)
             /\ \A k \in 1..Len(invItems) :
                  LET cancelled == docs'[t].status = "Cancelled"
                      total == TotalFor(docs[t].items, invItems[k].item)
                      n == OrElse(invItems[k].stockNotTransferred, 0)
                      residual ==
                          Max(total - EarlierSumOr(invItems, k, 1, cancelled), 0)
                  IN  IF total = 0
                      THEN invItems'[k] = invItems[k]
                      ELSE invItems'[k] =
                             [invItems[k] EXCEPT !.stockNotTransferred =
                                IF cancelled
                                THEN Some(Min(n + residual, invItems[k].quantity))
                                ELSE Some(Max(n - residual, 0))]
      ]_vars

\* C16 witness: a transfer of A only was submitted and cancelled against a row
\* of A and a row of B, both without stockNotTransferred: the row of A went
\* from undefined to 0 and then to a positive value, the row of B is still
\* undefined
UndefinedCountsAsZeroWitness ==
    /\ preSubmit.phase = "cancelled"
    /\ Len(invItems) = 2
    /\ invItems[1].item = "A" /\ invItems[2].item = "B"
    /\ preSubmit.rows[1].stockNotTransferred = None
    /\ preSubmit.rows[2].stockNotTransferred = None
    /\ TotalFor(docs[preSubmit.t].items, "A") > 0
    /\ TotalFor(docs[preSubmit.t].items, "B") = 0
    /\ IsDefined(invItems[1].stockNotTransferred)
    /\ OrElse(invItems[1].stockNotTransferred, 0) > 0
    /\ invItems[2].stockNotTransferred = None

(***************************************************************************)
(* Two submits against one invoice                                         *)
(***************************************************************************)
\* C18: when transfer t is submitted after transfer u against the same
\* invoice, every invoice row ends with the stockNotTransferred it would have
\* had with t submitted first and u second
SubmitsCommute ==
    [][\A t \in DocNames, u \in DocNames :
          (/\ t # u
           /\ docs[t].status = "Draft" /\ docs'[t].status = "Submitted"
           /\ docs[u].status = "Submitted"
           /\ preSubmit.t = u /\ preSubmit.phase = "submitted")
          => LET afterT == reconcileRows(preSubmit.rows, getTransferMap(docs[t]), FALSE)
                 afterBoth == reconcileRows(afterT, getTransferMap(docs[u]), FALSE)
             IN  /\ Len(invItems') = Len(afterBoth)
                 /\ \A k \in 1..Len(afterBoth) :
                      invItems'[k].stockNotTransferred =
                          afterBoth[k].stockNotTransferred
      ]_vars

\* C18 witness: both transfers are submitted, they move different amounts of
\* the same item, and the second submit took stock from a row that was
\* already below its quantity
SubmitsCommuteWitness ==
    /\ docs["T1"].status = "Submitted"
    /\ docs["T2"].status = "Submitted"
    /\ preSubmit.phase = "submitted"
    /\ \E k \in 1..Len(invItems) :
          /\ TotalFor(docs["T1"].items, invItems[k].item) > 0
          /\ TotalFor(docs["T2"].items, invItems[k].item) > 0
          /\ TotalFor(docs["T1"].items, invItems[k].item)
               # TotalFor(docs["T2"].items, invItems[k].item)
          /\ StockOf(invItems[k]) < StockOf(preSubmit.rows[k])
          /\ StockOf(preSubmit.rows[k]) < invItems[k].quantity

(***************************************************************************)
(* Crashes, failing writes, interleaved reconciliations                    *)
(***************************************************************************)
\* the invoice rows after the whole reconciliation of transfer t on rows
Reconciled(rows, t) ==
    reconcileRows(rows, getTransferMap(docs[t]), isCancelled(docs[t]))

\* C14: a submit that stopped in a crash after super.afterSubmit committed the
\* posting and before the reconciliation wrote anything leaves the invoice as
\* the finished reconciliation would leave it
NoCrashWindow ==
    \A t \in DocNames :
        (/\ proc[t].pc = "crashed"
         /\ proc[t].cursor = 0
         /\ isSubmitted(docs[t])
         /\ t \in posted)
        => invItems = Reconciled(preSubmit.rows, t)

\* C15: a reconciliation that stopped at a failing write leaves every invoice
\* row and the aggregate as they were before it began
FailureAppliesNothing ==
    \A t \in DocNames :
        proc[t].pc = "failed"
        => /\ invItems = preSubmit.rows
           /\ invTotal = getStockNotTransferred(preSubmit.rows)
           /\ invTotal = getStockNotTransferred(invItems)

====
